---- MODULE Spec2Model ----
(***************************************************************************)
(* State-machine model of gdrive_task_scheduler: the directory-backed task *)
(* queue (todo/, in_progress/, done/ and their transient markers), the     *)
(* named locks, the heartbeat files and the recovery pass, as driven by a  *)
(* fixed set of scheduler sessions (one TaskScheduler per worker process). *)
(*                                                                         *)
(* Time is an integer clock whose unit is one staleness window             *)
(* (timeout_minutes = 15), so the orphan age of 3600 s is 4 units.  The    *)
(* heartbeat interval (30 s) is far below one unit: every session whose    *)
(* publisher thread runs has published by each tick.                       *)
(*                                                                         *)
(* A directory is a function from the names it holds to their decoded      *)
(* records; an atomic publish (write to .tmp, rename into place) is one    *)
(* step, every other filesystem call of a handler is a step of its own, so *)
(* that other workers interleave between them as processes do.             *)
(***************************************************************************)
EXTENDS Integers, FiniteSets, Sequences, TLC

\* ---------------------------------------------------------------- bounds
MaxTime == 2
MaxRetries == 1
MaxAge == 5
MaxEntries == 2

\* ------------------------------------------------------ program constants
Timeout == 1
OrphanAge == 4
Absent == -1
Malformed == -2

\* two scheduler sessions contend for one task file
Workers == {1, 2}
Files == {1}
Hosts == {"hostA", "hostB"}
LockNames ==
    {"todo_lock", "task_move", "task_done", "task_create", "stale_check", "progress"}
SuccessInputs == {TRUE}
StaleReason == "Stale task recovery"

VARIABLES
    now,         \* datetime.now() / time.time()
    todo,        \* todo/<f>
    reserved,    \* todo/.<f>.reserved
    inprog,      \* in_progress/<f>
    completing,  \* in_progress/.<f>.completing
    recovering,  \* in_progress/.<f>.recovering
    done,        \* done/<f>
    hb,          \* .status/<session>.heartbeat : mtime, whether it decodes, last_beat
    locks,       \* .locks/<name>.lock : holder, 0 when free
    hostOf,      \* socket.gethostname() of each worker process
    hbthread,    \* Heartbeat: position of the publisher thread, _shutdown, publishes since
    attempt,     \* acquire_lock: attempts that have timed out in the call under way
    osenv,       \* the process table as a probe sees it: user of each process, view of /proc
    alive,       \* the worker process runs
    shutdown,    \* TaskScheduler._shutdown
    pc,          \* position of each worker in the handler it executes
    task,        \* the Task object the worker holds (filename, data, path)
    active,      \* recover_stale_tasks: local active_sessions
    pending,     \* recover_stale_tasks: entries of the listing not yet visited
    rfile,       \* recover_stale_tasks: local filename
    rdata,       \* recover_stale_tasks: local task_data
    recovered,   \* recover_stale_tasks: local recovered_count, then its result
    created,     \* filenames create_task has been called with
    stray        \* todo/ : every other entry, by name, with its mtime

vars == <<now, todo, reserved, inprog, completing, recovering, done, hb, locks,
          hostOf, osenv, attempt, hbthread, alive, shutdown, pc, task, active, pending, rfile, rdata,
          created, stray, recovered>>

fsVars == <<todo, reserved, inprog, completing, recovering, done, stray>>
recVars == <<active, pending, rfile, rdata, recovered>>
envVars == <<now, hb, hostOf, osenv, attempt, hbthread, alive, shutdown, created>>

\* ------------------------------------------------------------ task records
EmptyData ==
    [retries |-> Absent, created_at |-> Absent,
     session_id |-> Absent, process_id |-> Absent, host |-> "",
     started_at |-> Absent, last_failed |-> Absent, failure_reason |-> "",
     recovered_by |-> Absent, completed_at |-> Absent, success |-> "",
     duration_seconds |-> Absent, priority |-> Absent,
     progress_percentage |-> Absent, progress_status |-> "",
     progress_updated_at |-> Absent]

\* the content of a file that yaml.safe_load rejects, or decodes to something
\* that is not a keyed record
Garbage == [raw |-> "garbage"]
Decodes(r) == "retries" \in DOMAIN r

NoTask == [filename |-> 0, data |-> EmptyData, path |-> ""]

Pid(w) == w
Session(w) == w

\* ------------------------------------------------------- directory helpers
Put(dir, f, r) == [x \in (DOMAIN dir) \cup {f} |-> IF x = f THEN r ELSE dir[x]]
Del(dir, f) == [x \in (DOMAIN dir) \ {f} |-> dir[x]]
EmptyDir == [x \in {} |-> EmptyData]

get_yaml_files(dir) == DOMAIN dir

\* os.path.getmtime of a file of todo/: the time of the write that made it
\* (create_task or a recovery publish); rename keeps it.
Mtime(r) == IF r.last_failed # Absent THEN r.last_failed ELSE r.created_at

\* cleanup_temp_files(todo_dir): of the dot-files of todo/ (the .reserved
\* markers) those older than older_than_secs are removed.
cleanup_temp_files(markers) ==
    [x \in {y \in DOMAIN markers : now - Mtime(markers[y]) <= OrphanAge} |-> markers[x]]

\* A file name: an optional leading dot, a stem, and its extensions in order
\* (".t.yaml.reserved" is hidden, stem "t", extensions .yaml .reserved).
Stem == "t"
TransientSuffixes == {".reserved", ".completing", ".recovering", ".tmp"}
startswith_dot(name) == name.hidden
endswith(name, suffixes) ==
    Len(name.exts) > 0 /\ name.exts[Len(name.exts)] \in suffixes

EmptyListing == [x \in {} |-> 0]

\* one turn of the loop of cleanup_temp_files: the entry is removed
Removes(name, mtime) ==
    /\ startswith_dot(name)
    /\ now - mtime > OrphanAge
    /\ endswith(name, TransientSuffixes)

\* cleanup_temp_files over a directory listed by name
cleanup_listing(listing) ==
    [n \in {m \in DOMAIN listing : ~Removes(m, listing[m])} |-> listing[n]]

\* ------------------------------------------------------------------ locks
Free(name) == locks[name] = 0
Acquire(name, w) == locks' = [locks EXCEPT ![name] = w]
Release(name) == locks' = [locks EXCEPT ![name] = 0]
ReleaseAll(w) == locks' = [n \in LockNames |-> IF locks[n] = w THEN 0 ELSE locks[n]]

\* acquire_lock, attempt by attempt, for the two locks of get_next_task
LockMaxRetries == 5
WaitedLock(w) == IF pc[w] = "rec_lock" THEN "stale_check" ELSE "todo_lock"
LastAttempt(w) == attempt[w] = LockMaxRetries - 1

\* ------------------------------------------------------------ Task methods
mark_started_NoHost(data, w) ==
    [data EXCEPT !.started_at = now, !.process_id = Pid(w),
                 !.session_id = Session(w)]

mark_started(data, w) ==
    [data EXCEPT !.started_at = now, !.process_id = Pid(w),
                 !.host = hostOf[w], !.session_id = Session(w)]

mark_completed_Unstamped(data, success) ==
    [data EXCEPT !.success = IF success THEN "True" ELSE "False"]

mark_completed(data, success) ==
    [data EXCEPT !.completed_at = now,
                 !.success = IF success THEN "True" ELSE "False",
                 !.duration_seconds =
                     IF data.started_at # Absent THEN now - data.started_at ELSE 0]

\* --------------------------------------------------------------- recovery
\* /proc shows every process, only those of the prober's user (hidepid), or
\* does not exist (not Linux)
Users == {"alice", "bob"}
ProcViews == {"all", "own", "none"}
\* every worker runs as one user and /proc shows every process
SameUser == [user |-> [w \in Workers |-> "alice"], proc |-> "all"]

\* the process pid runs on the host of the prober w
RunsHere(pid, w) == pid \in Workers /\ alive[pid] /\ hostOf[pid] = hostOf[w]

\* os.path.exists("/proc/<pid>")
proc_exists(pid, w) ==
    /\ RunsHere(pid, w)
    /\ \/ osenv.proc = "all"
       \/ osenv.proc = "own" /\ osenv.user[pid] = osenv.user[w]

\* os.kill(pid, 0)
kill_zero(pid, w) ==
    IF ~RunsHere(pid, w) THEN "ProcessLookupError"
    ELSE IF osenv.user[pid] # osenv.user[w] THEN "PermissionError"
    ELSE "ok"

is_process_running(pid, host, w) ==
    IF host # "" /\ host # hostOf[w] THEN FALSE
    ELSE IF pid = Malformed THEN FALSE
    ELSE IF pid <= 0 THEN FALSE
    ELSE IF proc_exists(pid, w) THEN TRUE
    ELSE kill_zero(pid, w) = "ok"

\* The publisher thread between two publishes, not asked to stop.  Where the
\* clock step publishes for it (every session that runs has published by each
\* tick) and close() ends it together with its file, the thread is left there.
MaxLate == 2
Publisher == [at |-> "sleep", stop |-> FALSE, late |-> 0]

\* _write_heartbeat at time t: the file is replaced, last_beat is t
Beat(t) == [mtime |-> t, decodes |-> TRUE, last_beat |-> t]
\* no heartbeat file
NoBeat == [mtime |-> Absent, decodes |-> FALSE, last_beat |-> Absent]

get_active_sessions_MtimeOnly ==
    {Session(w) : w \in {x \in Workers :
        /\ hb[x].mtime # Absent
        /\ now - hb[x].mtime <= Timeout}}

get_active_sessions ==
    {Session(w) : w \in {x \in Workers :
        /\ hb[x].mtime # Absent
        /\ now - hb[x].mtime <= Timeout
        /\ hb[x].decodes
        /\ hb[x].last_beat # Absent
        /\ hb[x].last_beat # Malformed
        /\ now - hb[x].last_beat <= Timeout}}

IsStale(data, act, w) ==
    IF data.session_id # Absent /\ data.session_id \notin act THEN TRUE
    ELSE IF data.process_id # Absent
            /\ ~is_process_running(data.process_id, data.host, w) THEN TRUE
    ELSE IF data.started_at # Absent
         THEN data.started_at = Malformed \/ now - data.started_at > Timeout
    ELSE TRUE

RecoveredData_NoIncrement(data, w) ==
    [data EXCEPT !.retries = (IF data.retries = Absent THEN 0 ELSE data.retries),
                 !.last_failed = now,
                 !.failure_reason = StaleReason,
                 !.recovered_by = Pid(w)]

RecoveredData(data, w) ==
    [data EXCEPT !.retries = (IF data.retries = Absent THEN 0 ELSE data.retries) + 1,
                 !.last_failed = now,
                 !.failure_reason = StaleReason,
                 !.recovered_by = Pid(w)]

Init ==
    /\ now = 0
    /\ todo = EmptyDir /\ reserved = EmptyDir /\ inprog = EmptyDir
    /\ completing = EmptyDir /\ recovering = EmptyDir /\ done = EmptyDir
    /\ stray = EmptyListing
    /\ hb = [w \in Workers |-> Beat(0)]
    /\ locks = [n \in LockNames |-> 0]
    /\ hbthread = [w \in Workers |-> Publisher]
    /\ attempt = [w \in Workers |-> 0]
    /\ hostOf \in {h \in [Workers -> Hosts] : h[1] = "hostA"}
    /\ osenv = SameUser
    /\ alive = [w \in Workers |-> TRUE]
    /\ shutdown = [w \in Workers |-> FALSE]
    /\ pc = [w \in Workers |-> "idle"]
    /\ task = [w \in Workers |-> NoTask]
    /\ active = [w \in Workers |-> {}]
    /\ pending = [w \in Workers |-> {}]
    /\ rfile = [w \in Workers |-> 0]
    /\ rdata = [w \in Workers |-> EmptyData]
    /\ recovered = [w \in Workers |-> 0]
    /\ created = {}

\* ---------------------------------------------------------------- helpers
Goto(w, p) == pc' = [pc EXCEPT ![w] = p]
\* the call returns v to its caller, who goes on at p
Return(w, p, v) == pc' = [pc EXCEPT ![w] = p]
At(w, p) == alive[w] /\ pc[w] = p

Retries(data) == IF data.retries = Absent THEN 0 ELSE data.retries
FileOf(w) == task[w].filename
DropRecLocals(w) ==
    /\ active' = [active EXCEPT ![w] = {}]
    /\ pending' = [pending EXCEPT ![w] = {}]
    /\ rfile' = [rfile EXCEPT ![w] = 0]
    /\ rdata' = [rdata EXCEPT ![w] = EmptyData]

\* ------------------------------------------------ TaskManager.create_task
\* Filenames are fresh: auto-generated ids are unique, and callers that pass
\* task_id pass a new one.
CreateData(w) ==
    [EmptyData EXCEPT !.created_at = now,
                      !.retries = 0, !.session_id = Session(w)]

CreateBegin(w, f) ==
    /\ At(w, "idle") /\ f \notin created
    /\ Free("task_create")
    /\ Acquire("task_create", w)
    /\ created' = created \cup {f}
    /\ task' = [task EXCEPT ![w] =
                    [filename |-> f, data |-> CreateData(w), path |-> "todo"]]
    /\ Goto(w, "cr_write")
    /\ UNCHANGED <<now, hb, hostOf, osenv, attempt, hbthread, alive, shutdown, fsVars, recVars>>

\* acquire_lock raises LockAcquisitionError: try_remove(tmp); return None
CreateLockTimeout(w) ==
    /\ At(w, "idle")
    /\ ~Free("task_create")
    /\ Return(w, "idle", "none")
    /\ UNCHANGED <<envVars, fsVars, recVars, locks, task>>

CreateWrite(w) ==
    /\ At(w, "cr_write")
    /\ Release("task_create")
    /\ task' = [task EXCEPT ![w] = NoTask]
    /\ todo' = Put(todo, FileOf(w), task[w].data)
    /\ Return(w, "idle", "created")
    /\ UNCHANGED stray
    /\ UNCHANGED <<reserved, inprog, completing, recovering, done, envVars, recVars>>

\* the write raises (disk full, I/O error): try_remove(tmp); return None
CreateWriteFail(w) ==
    /\ At(w, "cr_write")
    /\ Release("task_create")
    /\ task' = [task EXCEPT ![w] = NoTask]
    /\ Return(w, "idle", "none")
    /\ UNCHANGED <<fsVars, envVars, recVars>>

\* ---------------------------------------------- TaskScheduler.get_next_task
GetNextTask(w, check_stale) ==
    /\ At(w, "idle")
    /\ IF shutdown[w]
       THEN /\ Return(w, "idle", "none")
            /\ UNCHANGED <<reserved, stray, active, recovered>>
       ELSE /\ reserved' = cleanup_temp_files(reserved)
            /\ stray' = cleanup_listing(stray)
            /\ IF check_stale
               THEN /\ active' = [active EXCEPT ![w] = get_active_sessions]
                    /\ recovered' = [recovered EXCEPT ![w] = 0]
                    /\ Goto(w, "rec_lock")
               ELSE /\ Goto(w, "gnt_lock")
                    /\ UNCHANGED <<active, recovered>>
    /\ UNCHANGED <<todo, inprog, completing, recovering, done, envVars, locks,
                   task, pending, rfile, rdata>>

\* ------------------------------------------ TaskRecovery.recover_stale_tasks
RecLock_NoLock(w) ==
    /\ At(w, "rec_lock")
    /\ pending' = [pending EXCEPT ![w] = get_yaml_files(inprog)]
    /\ Goto(w, "rec_loop")
    /\ UNCHANGED <<fsVars, envVars, task, active, rfile, rdata, recovered, locks>>

RecLock(w) ==
    /\ At(w, "rec_lock")
    /\ Free("stale_check")
    /\ Acquire("stale_check", w)
    /\ pending' = [pending EXCEPT ![w] = get_yaml_files(inprog)]
    /\ Goto(w, "rec_loop")
    /\ attempt' = [attempt EXCEPT ![w] = 0]
    /\ UNCHANGED <<fsVars, now, hb, hostOf, osenv, hbthread, alive, shutdown, created,
                   task, active, rfile, rdata, recovered>>

\* "Lock acquisition failed": the pass returns 0
RecLockTimeout(w) ==
    /\ At(w, "rec_lock")
    /\ ~Free("stale_check")
    /\ DropRecLocals(w)
    /\ Goto(w, "gnt_lock")
    /\ attempt' = [attempt EXCEPT ![w] = 0]
    /\ UNCHANGED <<fsVars, now, hb, hostOf, osenv, hbthread, alive, shutdown, created,
                   task, locks, recovered>>

RecLoopEnd_KeepLock(w) ==
    /\ At(w, "rec_loop") /\ pending[w] = {}
    /\ DropRecLocals(w)
    /\ Goto(w, "gnt_lock")
    /\ UNCHANGED <<fsVars, envVars, task, recovered, locks>>

RecLoopEnd(w) ==
    /\ At(w, "rec_loop") /\ pending[w] = {}
    /\ Release("stale_check")
    /\ DropRecLocals(w)
    /\ Goto(w, "gnt_lock")
    /\ UNCHANGED <<fsVars, envVars, task, recovered>>

\* one turn of the for loop: open and decode the entry (a vanished file and
\* a body that does not decode to a record raise and are skipped), classify it
\* an undecodable entry ends the pass: the rest of the listing is not visited
RecClassify_Abort(w) ==
    /\ At(w, "rec_loop")
    /\ \E f \in pending[w] :
        /\ pending' = [pending EXCEPT ![w] =
                           IF f \in DOMAIN inprog /\ ~Decodes(inprog[f])
                           THEN {} ELSE @ \ {f}]
        /\ IF f \in DOMAIN inprog /\ Decodes(inprog[f])
              /\ IsStale(inprog[f], active[w], w)
           THEN /\ Retries(inprog[f]) < MaxRetries
                /\ rdata' = [rdata EXCEPT ![w] = inprog[f]]
                /\ rfile' = [rfile EXCEPT ![w] = f]
                /\ Goto(w, "rec_rename")
           ELSE /\ UNCHANGED <<rdata, rfile, pc>>
    /\ UNCHANGED <<fsVars, envVars, locks, task, active, recovered>>

RecClassify(w) ==
    /\ At(w, "rec_loop")
    /\ \E f \in pending[w] :
        /\ pending' = [pending EXCEPT ![w] = @ \ {f}]
        /\ IF f \in DOMAIN inprog /\ Decodes(inprog[f])
              /\ IsStale(inprog[f], active[w], w)
           THEN /\ Retries(inprog[f]) < MaxRetries
                /\ rdata' = [rdata EXCEPT ![w] = inprog[f]]
                /\ rfile' = [rfile EXCEPT ![w] = f]
                /\ Goto(w, "rec_rename")
           ELSE /\ UNCHANGED <<rdata, rfile, pc>>
    /\ UNCHANGED <<fsVars, envVars, locks, task, active, recovered>>

RecRename(w) ==
    /\ At(w, "rec_rename")
    /\ IF rfile[w] \in DOMAIN inprog
       THEN /\ recovering' = Put(recovering, rfile[w], inprog[rfile[w]])
            /\ inprog' = Del(inprog, rfile[w])
       ELSE UNCHANGED <<recovering, inprog>>
    /\ Goto(w, "rec_publish")
    /\ UNCHANGED stray
    /\ UNCHANGED <<todo, reserved, completing, done, envVars, locks, task,
                   recVars>>

RecPublish(w) ==
    /\ At(w, "rec_publish")
    /\ todo' = Put(todo, rfile[w], RecoveredData(rdata[w], w))
    /\ recovering' = Del(recovering, rfile[w])
    /\ recovered' = [recovered EXCEPT ![w] = @ + 1]
    /\ Goto(w, "rec_loop")
    /\ UNCHANGED stray
    /\ UNCHANGED <<reserved, inprog, completing, done, envVars, locks, task,
                   active, pending, rfile, rdata>>

\* the write raises: the per-entry handler prints and the loop goes on
RecPublishFail(w) ==
    /\ At(w, "rec_publish")
    /\ Goto(w, "rec_loop")
    /\ UNCHANGED <<fsVars, envVars, locks, task, recVars>>

\* -------------------------------- get_next_task, the part under todo_lock
\* The result of the recovery pass is not kept (scheduler.py:96): it is gone
\* once get_next_task goes on to its lock.
\* yaml is not imported by scheduler.py: the lookup raises NameError, which
\* the handler of _get_task_priority turns into 0.
get_task_priority(f) == 0

\* tasks.sort(key=..., reverse=True); tasks[0]: the sort is stable and
\* os.listdir returns names in arbitrary order, so tasks[0] is any name
\* whose key is the greatest.
TopCandidates(listing) ==
    {f \in listing : \A g \in listing : get_task_priority(g) <= get_task_priority(f)}

GntLock(w) ==
    /\ At(w, "gnt_lock")
    /\ Free("todo_lock")
    /\ Acquire("todo_lock", w)
    /\ Goto(w, "gnt_pick")
    /\ recovered' = [recovered EXCEPT ![w] = 0]
    /\ attempt' = [attempt EXCEPT ![w] = 0]
    /\ UNCHANGED <<fsVars, now, hb, hostOf, osenv, hbthread, alive, shutdown, created,
                   task, active, pending, rfile, rdata>>

\* "Failed to get next task": return None
GntLockTimeout(w) ==
    /\ At(w, "gnt_lock")
    /\ ~Free("todo_lock")
    /\ Return(w, "idle", "none")
    /\ recovered' = [recovered EXCEPT ![w] = 0]
    /\ attempt' = [attempt EXCEPT ![w] = 0]
    /\ UNCHANGED <<fsVars, now, hb, hostOf, osenv, hbthread, alive, shutdown, created,
                   task, active, pending, rfile, rdata, locks>>

GntPick(w) ==
    /\ At(w, "gnt_pick")
    /\ Release("todo_lock")
    /\ IF get_yaml_files(todo) = {}
       THEN /\ Return(w, "idle", "none")
            /\ UNCHANGED task
       ELSE \E f \in TopCandidates(get_yaml_files(todo)) :
            /\ task' = [task EXCEPT ![w] =
                            [filename |-> f, data |-> todo[f], path |-> "todo"]]
            /\ Return(w, "have", "task")
    /\ UNCHANGED <<fsVars, envVars, recVars>>

\* ------------------------------------------- TaskScheduler.move_to_in_progress
MoveBegin_NoShutdownCheck(w) ==
    /\ At(w, "have")
    /\ Free("task_move")
    /\ Acquire("task_move", w)
    /\ Goto(w, "mv_reserve")
    /\ UNCHANGED <<task, fsVars, envVars, recVars>>

MoveBegin(w) ==
    /\ At(w, "have")
    /\ IF shutdown[w]
       THEN /\ Return(w, "idle", "none")
            /\ task' = [task EXCEPT ![w] = NoTask]
            /\ UNCHANGED locks
       ELSE /\ Free("task_move")
            /\ Acquire("task_move", w)
            /\ Goto(w, "mv_reserve")
            /\ UNCHANGED task
    /\ UNCHANGED <<fsVars, envVars, recVars>>

\* acquire_lock raises LockAcquisitionError: control goes to the except branch
MoveLockTimeout(w) ==
    /\ At(w, "have") /\ ~shutdown[w]
    /\ ~Free("task_move")
    /\ Goto(w, "mv_rollback")
    /\ UNCHANGED <<fsVars, envVars, recVars, task, locks>>

MvReserve(w) ==
    /\ At(w, "mv_reserve")
    /\ IF FileOf(w) \notin DOMAIN todo
       THEN /\ Release("task_move")
            /\ Return(w, "idle", "none")
            /\ task' = [task EXCEPT ![w] = NoTask]
            /\ UNCHANGED <<todo, reserved>>
       ELSE /\ reserved' = Put(reserved, FileOf(w), todo[FileOf(w)])
            /\ todo' = Del(todo, FileOf(w))
            /\ Goto(w, "mv_publish")
            /\ UNCHANGED <<locks, task>>
    /\ UNCHANGED stray
    /\ UNCHANGED <<inprog, completing, recovering, done, envVars, recVars>>

MvPublish(w) ==
    /\ At(w, "mv_publish")
    /\ Release("task_move")
    /\ inprog' = Put(inprog, FileOf(w), mark_started(task[w].data, w))
    /\ reserved' = Del(reserved, FileOf(w))
    /\ task' = [task EXCEPT ![w].data = mark_started(@, w),
                            ![w].path = "in_progress"]
    /\ Return(w, "working", "task")
    /\ UNCHANGED stray
    /\ UNCHANGED <<todo, completing, recovering, done, envVars, recVars>>

\* the write raises after mark_started: control goes to the except branch
MvPublishFail(w) ==
    /\ At(w, "mv_publish")
    /\ Release("task_move")
    /\ task' = [task EXCEPT ![w].data = mark_started(@, w)]
    /\ Goto(w, "mv_rollback")
    /\ UNCHANGED <<fsVars, envVars, recVars>>

\* the except branch: safe_rename(temp_reserved, task.path); return None
MvRollback(w) ==
    /\ At(w, "mv_rollback")
    /\ IF FileOf(w) \in DOMAIN reserved
       THEN /\ todo' = Put(todo, FileOf(w), reserved[FileOf(w)])
            /\ reserved' = Del(reserved, FileOf(w))
       ELSE UNCHANGED <<todo, reserved>>
    /\ task' = [task EXCEPT ![w] = NoTask]
    /\ Return(w, "idle", "none")
    /\ UNCHANGED stray
    /\ UNCHANGED <<inprog, completing, recovering, done, envVars, locks,
                   recVars>>

\* -------------------------------------------------- TaskScheduler.move_to_done
DoneBegin(w) ==
    /\ At(w, "working")
    /\ IF shutdown[w]
       THEN /\ Return(w, "working", "false")
            /\ UNCHANGED locks
       ELSE /\ Free("task_done")
            /\ Acquire("task_done", w)
            /\ Goto(w, "dn_rename")
    /\ UNCHANGED <<fsVars, envVars, task, recVars>>

\* acquire_lock raises LockAcquisitionError: control goes to the except branch
DoneLockTimeout(w) ==
    /\ At(w, "working") /\ ~shutdown[w]
    /\ ~Free("task_done")
    /\ Goto(w, "dn_rollback")
    /\ UNCHANGED <<fsVars, envVars, task, recVars, locks>>

DnRename(w) ==
    /\ At(w, "dn_rename")
    /\ IF FileOf(w) \in DOMAIN inprog
       THEN /\ completing' = Put(completing, FileOf(w), inprog[FileOf(w)])
            /\ inprog' = Del(inprog, FileOf(w))
       ELSE UNCHANGED <<completing, inprog>>
    /\ Goto(w, "dn_publish")
    /\ UNCHANGED stray
    /\ UNCHANGED <<todo, reserved, recovering, done, envVars, locks, task,
                   recVars>>

DnPublish(w, success) ==
    /\ At(w, "dn_publish")
    /\ Release("task_done")
    /\ done' = Put(done, FileOf(w), mark_completed(task[w].data, success))
    /\ completing' = Del(completing, FileOf(w))
    /\ task' = [task EXCEPT ![w] = NoTask]
    /\ Return(w, "idle", "true")
    /\ UNCHANGED stray
    /\ UNCHANGED <<todo, reserved, inprog, recovering, envVars, recVars>>

\* the write raises after mark_completed: control goes to the except branch
DnPublishFail(w, success) ==
    /\ At(w, "dn_publish")
    /\ Release("task_done")
    /\ task' = [task EXCEPT ![w].data = mark_completed(@, success)]
    /\ Goto(w, "dn_rollback")
    /\ UNCHANGED <<fsVars, envVars, recVars>>

\* the except branch: safe_rename(completing, in_prog); return False
DnRollback(w) ==
    /\ At(w, "dn_rollback")
    /\ IF FileOf(w) \in DOMAIN completing
       THEN /\ inprog' = Put(inprog, FileOf(w), completing[FileOf(w)])
            /\ completing' = Del(completing, FileOf(w))
       ELSE UNCHANGED <<inprog, completing>>
    /\ Return(w, "working", "false")
    /\ UNCHANGED stray
    /\ UNCHANGED <<todo, reserved, recovering, done, envVars, locks, task,
                   recVars>>

\* ----------------------------------------------- TaskScheduler.report_progress
\* The lock is progress_<filename>; the model has one task file.
ReportProgress(w) ==
    /\ At(w, "working")
    /\ IF shutdown[w]
       THEN /\ Return(w, "working", "false")
            /\ UNCHANGED locks
       ELSE /\ Free("progress")
            /\ Acquire("progress", w)
            /\ Goto(w, "rp_read")
    /\ UNCHANGED <<fsVars, envVars, task, recVars>>

\* acquire_lock raises LockAcquisitionError: print, return False
ProgressLockTimeout(w) ==
    /\ At(w, "working") /\ ~shutdown[w]
    /\ ~Free("progress")
    /\ Return(w, "working", "false")
    /\ UNCHANGED <<fsVars, envVars, locks, task, recVars>>

\* yaml is not imported by scheduler.py: yaml.safe_load(f) raises NameError
\* under the lock; the lock is released, the handler prints and returns
\* False.  pct and msg are never read and nothing is written.
RpRead(w) ==
    /\ At(w, "rp_read")
    /\ Release("progress")
    /\ Return(w, "working", "false")
    /\ UNCHANGED <<fsVars, envVars, task, recVars>>

\* ------------------------------------- close(), signals and process death
Close(w) ==
    /\ alive[w] /\ pc[w] \in {"idle", "have", "working"} /\ ~shutdown[w]
    /\ shutdown' = [shutdown EXCEPT ![w] = TRUE]
    /\ hb' = [hb EXCEPT ![w] = NoBeat]
    /\ UNCHANGED <<now, hostOf, osenv, attempt, hbthread, alive, created, fsVars, locks, pc, task,
                   recVars>>

Exit(w) ==
    /\ alive' = [alive EXCEPT ![w] = FALSE]
    /\ ReleaseAll(w)
    /\ Goto(w, "dead")
    /\ task' = [task EXCEPT ![w] = NoTask]
    /\ DropRecLocals(w)
    /\ recovered' = [recovered EXCEPT ![w] = 0]
    /\ UNCHANGED <<now, hostOf, osenv, attempt, hbthread, created, fsVars>>

\* _handle_shutdown: SIGTERM / SIGINT at any point of the main thread
Signal(w) ==
    /\ alive[w]
    /\ shutdown' = [shutdown EXCEPT ![w] = TRUE]
    /\ hb' = [hb EXCEPT ![w] = NoBeat]
    /\ Exit(w)

\* SIGKILL or a crash: no handler runs, the heartbeat file stays
Kill(w) ==
    /\ alive[w]
    /\ UNCHANGED <<shutdown, hb>>
    /\ Exit(w)

\* ------------------------------------------------ acquire_lock, step by step
\* lock.acquire() raises Timeout and it was not the last attempt: the loop
\* sleeps and tries again without counting
LockAttemptTimeout_Uncounted(w) ==
    /\ alive[w] /\ pc[w] \in {"rec_lock", "gnt_lock"}
    /\ ~Free(WaitedLock(w))
    /\ ~LastAttempt(w)
    /\ UNCHANGED vars

\* lock.acquire() raises Timeout and it was not the last attempt: sleep the
\* backoff, next attempt
LockAttemptTimeout(w) ==
    /\ alive[w] /\ pc[w] \in {"rec_lock", "gnt_lock"}
    /\ ~Free(WaitedLock(w))
    /\ ~LastAttempt(w)
    /\ attempt' = [attempt EXCEPT ![w] = @ + 1]
    /\ UNCHANGED <<now, hb, hostOf, osenv, hbthread, alive, shutdown, created,
                   fsVars, locks, pc, task, recVars>>

\* the last attempt times out: LockAcquisitionError
RecLockGiveUp(w) == LastAttempt(w) /\ RecLockTimeout(w)
GntLockGiveUp(w) == LastAttempt(w) /\ GntLockTimeout(w)

\* the steps acquire_lock takes by itself
AcquireStep(w) ==
    \/ RecLock(w) \/ GntLock(w)
    \/ LockAttemptTimeout(w)
    \/ RecLockGiveUp(w) \/ GntLockGiveUp(w)

\* ------------------------------------------------ Heartbeat, step by step
\* while not self._shutdown
HbCheck_IgnoreFlag(w) ==
    /\ alive[w] /\ hbthread[w].at = "check"
    /\ hbthread' = [hbthread EXCEPT ![w].at = "write"]
    /\ UNCHANGED <<now, hb, hostOf, osenv, attempt, alive, shutdown, created, fsVars,
                   locks, pc, task, recVars>>

HbCheck(w) ==
    /\ alive[w] /\ hbthread[w].at = "check"
    /\ hbthread' = [hbthread EXCEPT ![w].at =
                        IF hbthread[w].stop THEN "ended" ELSE "write"]
    /\ UNCHANGED <<now, hb, hostOf, osenv, attempt, alive, shutdown, created, fsVars,
                   locks, pc, task, recVars>>

\* self._write_heartbeat(); late counts the publishes made after stop()
HbWrite(w) ==
    /\ alive[w] /\ hbthread[w].at = "write"
    /\ hb' = [hb EXCEPT ![w] = Beat(now)]
    /\ hbthread' = [hbthread EXCEPT
                        ![w].at = "sleep",
                        ![w].late = IF hbthread[w].stop /\ @ < MaxLate
                                    THEN @ + 1 ELSE @]
    /\ UNCHANGED <<now, hostOf, osenv, attempt, alive, shutdown, created, fsVars,
                   locks, pc, task, recVars>>

\* the write raises: print, time.sleep(5)
HbWriteFail(w) ==
    /\ alive[w] /\ hbthread[w].at = "write"
    /\ hbthread' = [hbthread EXCEPT ![w].at = "sleep"]
    /\ UNCHANGED <<now, hb, hostOf, osenv, attempt, alive, shutdown, created, fsVars,
                   locks, pc, task, recVars>>

\* time.sleep returns
HbWake(w) ==
    /\ alive[w] /\ hbthread[w].at = "sleep"
    /\ hbthread' = [hbthread EXCEPT ![w].at = "check"]
    /\ UNCHANGED <<now, hb, hostOf, osenv, attempt, alive, shutdown, created, fsVars,
                   locks, pc, task, recVars>>

\* Heartbeat.stop(): set the flag, join for at most 5 s
HbStop(w) ==
    /\ alive[w] /\ ~hbthread[w].stop
    /\ hbthread' = [hbthread EXCEPT ![w].stop = TRUE]
    /\ UNCHANGED <<now, hb, hostOf, osenv, attempt, alive, shutdown, created, fsVars,
                   locks, pc, task, recVars>>

\* the clock alone
ClockTick ==
    /\ now < MaxTime
    /\ now' = now + 1
    /\ UNCHANGED <<hb, hostOf, osenv, attempt, hbthread, alive, shutdown, created, fsVars,
                   locks, pc, task, recVars>>

HbStep(w) == HbCheck(w) \/ HbWrite(w) \/ HbWake(w)

\* --------------------------------------- time and Heartbeat._heartbeat_loop
Publishing(w) == alive[w] /\ ~shutdown[w]

\* A handler runs for seconds, a clock unit is 15 minutes: the clock advances
\* between calls, not inside one.
TickTo(limit) ==
    /\ now < limit
    /\ \A w \in Workers : alive[w] => pc[w] \in {"idle", "have", "working"}
    /\ now' = now + 1
    /\ hb' = [w \in Workers |-> IF Publishing(w) THEN Beat(now + 1) ELSE hb[w]]
    /\ UNCHANGED <<hostOf, osenv, attempt, hbthread, alive, shutdown, created, fsVars, locks, pc, task,
                   recVars>>

Tick == TickTo(MaxTime)

\* the clock runs past the orphan window of cleanup_temp_files
LongTick == TickTo(MaxAge)

\* Every lock is granted in time and every write succeeds; processes may
\* still be closed, signalled or killed at any step.
Patient ==
    \/ \E w \in Workers, f \in Files : CreateBegin(w, f)
    \/ \E w \in Workers : CreateWrite(w)
    \/ \E w \in Workers, cs \in BOOLEAN : GetNextTask(w, cs)
    \/ \E w \in Workers : RecLock(w)
    \/ \E w \in Workers : RecLoopEnd(w)
    \/ \E w \in Workers : RecClassify(w)
    \/ \E w \in Workers : RecRename(w)
    \/ \E w \in Workers : RecPublish(w)
    \/ \E w \in Workers : GntLock(w)
    \/ \E w \in Workers : GntPick(w)
    \/ \E w \in Workers : MoveBegin(w)
    \/ \E w \in Workers : MvReserve(w)
    \/ \E w \in Workers : MvPublish(w)
    \/ \E w \in Workers : DoneBegin(w)
    \/ \E w \in Workers : DnRename(w)
    \/ \E w \in Workers, s \in SuccessInputs : DnPublish(w, s)
    \/ \E w \in Workers : ReportProgress(w)
    \/ \E w \in Workers : RpRead(w)
    \/ \E w \in Workers : Close(w)
    \/ \E w \in Workers : Signal(w)
    \/ \E w \in Workers : Kill(w)
    \/ Tick

\* A lock wait exhausts its retries
LockTimeouts ==
    \/ \E w \in Workers : CreateLockTimeout(w)
    \/ \E w \in Workers : RecLockTimeout(w)
    \/ \E w \in Workers : GntLockTimeout(w)
    \/ \E w \in Workers : MoveLockTimeout(w)
    \/ \E w \in Workers : DoneLockTimeout(w)
    \/ \E w \in Workers : ProgressLockTimeout(w)

\* A write raises
WriteFailures ==
    \/ \E w \in Workers : CreateWriteFail(w)
    \/ \E w \in Workers : RecPublishFail(w)
    \/ \E w \in Workers : MvPublishFail(w)
    \/ \E w \in Workers, s \in SuccessInputs : DnPublishFail(w, s)

Rollbacks ==
    \/ \E w \in Workers : MvRollback(w)
    \/ \E w \in Workers : DnRollback(w)

\* Locks may time out; every write succeeds.
Next == Patient \/ LockTimeouts \/ Rollbacks

Spec == Init /\ [][Next]_vars

\* Workers that never ask for a recovery pass (check_stale=False); locks may
\* time out.
ContentionNext ==
    \/ \E w \in Workers, f \in Files : CreateBegin(w, f)
    \/ \E w \in Workers : CreateWrite(w)
    \/ \E w \in Workers : GetNextTask(w, FALSE)
    \/ \E w \in Workers : GntLock(w)
    \/ \E w \in Workers : GntPick(w)
    \/ \E w \in Workers : MoveBegin(w)
    \/ \E w \in Workers : MvReserve(w)
    \/ \E w \in Workers : MvPublish(w)
    \/ \E w \in Workers : DoneBegin(w)
    \/ \E w \in Workers : DnRename(w)
    \/ \E w \in Workers, s \in SuccessInputs : DnPublish(w, s)
    \/ \E w \in Workers : ReportProgress(w)
    \/ \E w \in Workers : RpRead(w)
    \/ \E w \in Workers : Close(w)
    \/ \E w \in Workers : Signal(w)
    \/ \E w \in Workers : Kill(w)
    \/ Tick
    \/ \E w \in Workers : CreateLockTimeout(w)
    \/ \E w \in Workers : GntLockTimeout(w)
    \/ \E w \in Workers : MoveLockTimeout(w)
    \/ \E w \in Workers : DoneLockTimeout(w)
    \/ Rollbacks

ContentionSpec == Init /\ [][ContentionNext]_vars

\* get_next_task on a queue that already holds tasks with a priority each:
\* the task_data a caller passed to create_task, of which the other
\* specifications keep only the fields the scheduler stamps.
PickFiles == {1, 2, 3}
Priorities == {1, 3, 10}

QueuedData(p) ==
    [EmptyData EXCEPT !.created_at = 0, !.retries = 0,
                      !.session_id = Session(1), !.priority = p]

PickInit ==
    /\ now = 0
    /\ todo \in UNION {[S -> {QueuedData(p) : p \in Priorities \cup {Absent}}] :
                         S \in SUBSET PickFiles}
    /\ reserved = EmptyDir /\ inprog = EmptyDir
    /\ completing = EmptyDir /\ recovering = EmptyDir /\ done = EmptyDir
    /\ stray = EmptyListing
    /\ hb = [w \in Workers |-> Beat(0)]
    /\ locks = [n \in LockNames |-> 0]
    /\ hbthread = [w \in Workers |-> Publisher]
    /\ attempt = [w \in Workers |-> 0]
    /\ hostOf = [w \in Workers |-> "hostA"]
    /\ osenv = SameUser
    /\ alive = [w \in Workers |-> TRUE]
    /\ shutdown = [w \in Workers |-> FALSE]
    /\ pc = [w \in Workers |-> "idle"]
    /\ task = [w \in Workers |-> NoTask]
    /\ active = [w \in Workers |-> {}]
    /\ pending = [w \in Workers |-> {}]
    /\ rfile = [w \in Workers |-> 0]
    /\ rdata = [w \in Workers |-> EmptyData]
    /\ recovered = [w \in Workers |-> 0]
    /\ created = DOMAIN todo

PickNext ==
    \/ \E w \in Workers : GetNextTask(w, FALSE)
    \/ \E w \in Workers : GntLock(w)
    \/ \E w \in Workers : GntPick(w)

PickSpec == PickInit /\ [][PickNext]_vars

\* the worker that keeps running: it is never closed, signalled or killed
Survivor == CHOOSE w \in Workers : \A v \in Workers : w <= v

\* One worker alone, nothing fails and nothing stops it.  in_progress/ is
\* empty whenever it calls get_next_task, so its recovery passes visit no
\* entry.
HappyNext ==
    \/ \E f \in Files : CreateBegin(Survivor, f)
    \/ CreateWrite(Survivor)
    \/ \E cs \in BOOLEAN : GetNextTask(Survivor, cs)
    \/ RecLock(Survivor)
    \/ RecLoopEnd(Survivor)
    \/ GntLock(Survivor)
    \/ GntPick(Survivor)
    \/ MoveBegin(Survivor)
    \/ MvReserve(Survivor)
    \/ MvPublish(Survivor)
    \/ DoneBegin(Survivor)
    \/ DnRename(Survivor)
    \/ \E s \in SuccessInputs : DnPublish(Survivor, s)
    \/ ReportProgress(Survivor)
    \/ RpRead(Survivor)
    \/ Tick

HappySpec == Init /\ [][HappyNext]_vars

\* A recovery pass over one in_progress entry whose fields, owner and
\* heartbeats are drawn from every combination: the classification as a
\* function of the decoded entry.
ClassifyInit ==
    /\ now \in 0..MaxTime
    /\ todo = EmptyDir /\ reserved = EmptyDir
    /\ inprog \in [Files ->
          {[EmptyData EXCEPT !.retries = 0, !.created_at = 0,
                             !.session_id = sid, !.process_id = pid,
                             !.host = h, !.started_at = st] :
              sid \in {Absent} \cup {Session(w) : w \in Workers},
              pid \in {Absent} \cup {Pid(w) : w \in Workers},
              h \in {""} \cup Hosts,
              st \in {Absent, Malformed} \cup 0..MaxTime}]
    /\ completing = EmptyDir /\ recovering = EmptyDir /\ done = EmptyDir
    /\ stray = EmptyListing
    /\ hb \in [Workers -> {NoBeat, Beat(0), Beat(now)}]
    /\ locks = [n \in LockNames |-> 0]
    /\ hbthread = [w \in Workers |-> Publisher]
    /\ attempt = [w \in Workers |-> 0]
    /\ hostOf \in {h \in [Workers -> Hosts] : h[Survivor] = "hostA"}
    /\ osenv = SameUser
    /\ alive \in {a \in [Workers -> BOOLEAN] : a[Survivor]}
    /\ shutdown = [w \in Workers |-> FALSE]
    /\ pc = [w \in Workers |-> IF alive[w] THEN "idle" ELSE "dead"]
    /\ task = [w \in Workers |-> NoTask]
    /\ active = [w \in Workers |-> {}]
    /\ pending = [w \in Workers |-> {}]
    /\ rfile = [w \in Workers |-> 0]
    /\ rdata = [w \in Workers |-> EmptyData]
    /\ recovered = [w \in Workers |-> 0]
    /\ created = Files

ClassifyNext ==
    \/ GetNextTask(Survivor, TRUE)
    \/ RecLock(Survivor)
    \/ RecClassify(Survivor)
    \/ RecRename(Survivor)
    \/ RecPublish(Survivor)
    \/ RecLoopEnd(Survivor)
    \/ GntLock(Survivor)
    \/ GntPick(Survivor)

ClassifySpec == ClassifyInit /\ [][ClassifyNext]_vars

\* Workers that claim and complete tasks without recovery passes and
\* without being stopped; a destination write may raise, and the clock runs
\* past the orphan window.
RollbackNext ==
    \/ \E w \in Workers, f \in Files : CreateBegin(w, f)
    \/ \E w \in Workers : CreateWrite(w)
    \/ \E w \in Workers : GetNextTask(w, FALSE)
    \/ \E w \in Workers : GntLock(w)
    \/ \E w \in Workers : GntPick(w)
    \/ \E w \in Workers : MoveBegin(w)
    \/ \E w \in Workers : MvReserve(w)
    \/ \E w \in Workers : MvPublish(w)
    \/ \E w \in Workers : MvPublishFail(w)
    \/ \E w \in Workers : MvRollback(w)
    \/ \E w \in Workers : DoneBegin(w)
    \/ \E w \in Workers : DnRename(w)
    \/ \E w \in Workers, s \in SuccessInputs : DnPublish(w, s)
    \/ \E w \in Workers, s \in SuccessInputs : DnPublishFail(w, s)
    \/ \E w \in Workers : DnRollback(w)
    \/ LongTick

RollbackSpec == Init /\ [][RollbackNext]_vars

\* cleanup_temp_files on a directory drawn from the names the scheduler, its
\* writes and its users leave in todo/: task files, the three markers, the
\* <path>.tmp and <path>.tmp.tmp of a write, a backup copy, each hidden or not,
\* each old, exactly at the age limit, or new.
NameExts ==
    {<<".yaml">>, <<".yaml", ".reserved">>, <<".yaml", ".completing">>,
     <<".yaml", ".recovering">>, <<".yaml", ".tmp">>,
     <<".yaml", ".tmp", ".tmp">>, <<".yaml", ".bak">>}
Names == [hidden : BOOLEAN, stem : {Stem}, exts : NameExts]

CleanupInit ==
    /\ now = MaxAge
    /\ todo = EmptyDir /\ reserved = EmptyDir /\ inprog = EmptyDir
    /\ completing = EmptyDir /\ recovering = EmptyDir /\ done = EmptyDir
    /\ stray \in UNION {[S -> {0, now - OrphanAge, now}] :
                          S \in {T \in SUBSET Names : Cardinality(T) <= MaxEntries}}
    /\ hb = [w \in Workers |-> Beat(now)]
    /\ locks = [n \in LockNames |-> 0]
    /\ hbthread = [w \in Workers |-> Publisher]
    /\ attempt = [w \in Workers |-> 0]
    /\ hostOf = [w \in Workers |-> "hostA"]
    /\ osenv = SameUser
    /\ alive = [w \in Workers |-> TRUE]
    /\ shutdown = [w \in Workers |-> FALSE]
    /\ pc = [w \in Workers |-> "idle"]
    /\ task = [w \in Workers |-> NoTask]
    /\ active = [w \in Workers |-> {}]
    /\ pending = [w \in Workers |-> {}]
    /\ rfile = [w \in Workers |-> 0]
    /\ rdata = [w \in Workers |-> EmptyData]
    /\ recovered = [w \in Workers |-> 0]
    /\ created = {}

CleanupNext ==
    \/ GetNextTask(Survivor, FALSE)
    \/ GntLock(Survivor)
    \/ GntPick(Survivor)

CleanupSpec == CleanupInit /\ [][CleanupNext]_vars

\* Two recovery passes started over the entries that owners of ended
\* sessions left in in_progress/; nothing else runs, and a pass whose lock
\* wait runs out returns 0.
GoneSession == 3
AbandonedData(r, st) ==
    [EmptyData EXCEPT !.created_at = 0, !.retries = r,
                      !.session_id = GoneSession, !.process_id = GoneSession,
                      !.host = "hostA", !.started_at = st]

RaceInit ==
    /\ now \in 0..MaxTime
    /\ todo = EmptyDir /\ reserved = EmptyDir
    /\ inprog \in UNION {[S -> {AbandonedData(r, st) : r \in {Absent, 0},
                                                       st \in {Absent, 0}}] :
                           S \in SUBSET Files}
    /\ completing = EmptyDir /\ recovering = EmptyDir /\ done = EmptyDir
    /\ stray = EmptyListing
    /\ hb = [w \in Workers |-> Beat(now)]
    /\ locks = [n \in LockNames |-> 0]
    /\ hbthread = [w \in Workers |-> Publisher]
    /\ attempt = [w \in Workers |-> 0]
    /\ hostOf \in {h \in [Workers -> Hosts] : h[1] = "hostA"}
    /\ osenv = SameUser
    /\ alive = [w \in Workers |-> TRUE]
    /\ shutdown = [w \in Workers |-> FALSE]
    /\ pc = [w \in Workers |-> "idle"]
    /\ task = [w \in Workers |-> NoTask]
    /\ active = [w \in Workers |-> {}]
    /\ pending = [w \in Workers |-> {}]
    /\ rfile = [w \in Workers |-> 0]
    /\ rdata = [w \in Workers |-> EmptyData]
    /\ recovered = [w \in Workers |-> 0]
    /\ created = DOMAIN inprog

RaceNext ==
    \/ \E w \in Workers : GetNextTask(w, TRUE)
    \/ \E w \in Workers : RecLock(w)
    \/ \E w \in Workers : RecLockTimeout(w)
    \/ \E w \in Workers : RecClassify(w)
    \/ \E w \in Workers : RecRename(w)
    \/ \E w \in Workers : RecPublish(w)
    \/ \E w \in Workers : RecLoopEnd(w)

RaceSpec == RaceInit /\ [][RaceNext]_vars

\* A recovery pass over one in_progress entry that names no session and
\* was started now, so that the process probe alone decides: its pid, its
\* host, the owner's user and the view of /proc are drawn from every
\* combination.
NegativePid == -7
ProbePids == {Malformed, NegativePid, GoneSession} \cup {Pid(w) : w \in Workers}

ProbeInit ==
    /\ now = 0
    /\ todo = EmptyDir /\ reserved = EmptyDir
    /\ inprog \in [Files ->
          {[EmptyData EXCEPT !.retries = 0, !.created_at = 0,
                             !.process_id = pid, !.host = h, !.started_at = 0] :
              pid \in ProbePids, h \in {""} \cup Hosts}]
    /\ completing = EmptyDir /\ recovering = EmptyDir /\ done = EmptyDir
    /\ stray = EmptyListing
    /\ hb = [w \in Workers |-> Beat(0)]
    /\ locks = [n \in LockNames |-> 0]
    /\ hbthread = [w \in Workers |-> Publisher]
    /\ attempt = [w \in Workers |-> 0]
    /\ hostOf \in {h \in [Workers -> Hosts] : h[Survivor] = "hostA"}
    /\ osenv \in [user : {u \in [Workers -> Users] : u[Survivor] = "alice"},
                  proc : ProcViews]
    /\ alive \in {a \in [Workers -> BOOLEAN] : a[Survivor]}
    /\ shutdown = [w \in Workers |-> FALSE]
    /\ pc = [w \in Workers |-> IF alive[w] THEN "idle" ELSE "dead"]
    /\ task = [w \in Workers |-> NoTask]
    /\ active = [w \in Workers |-> {}]
    /\ pending = [w \in Workers |-> {}]
    /\ rfile = [w \in Workers |-> 0]
    /\ rdata = [w \in Workers |-> EmptyData]
    /\ recovered = [w \in Workers |-> 0]
    /\ created = Files

ProbeSpec == ProbeInit /\ [][ClassifyNext]_vars

\* _get_active_sessions over heartbeat files drawn from every combination:
\* no file, any mtime, a body that decodes or not, last_beat missing,
\* unparseable or any time up to now.  in_progress/ is empty.
HeartbeatFiles ==
    {NoBeat} \cup [mtime : 0..MaxTime, decodes : BOOLEAN,
                   last_beat : {Absent, Malformed} \cup 0..MaxTime]

SessionsInit ==
    /\ now = MaxTime
    /\ todo = EmptyDir /\ reserved = EmptyDir /\ inprog = EmptyDir
    /\ completing = EmptyDir /\ recovering = EmptyDir /\ done = EmptyDir
    /\ stray = EmptyListing
    /\ hb \in [Workers -> HeartbeatFiles]
    /\ locks = [n \in LockNames |-> 0]
    /\ hbthread = [w \in Workers |-> Publisher]
    /\ attempt = [w \in Workers |-> 0]
    /\ hostOf = [w \in Workers |-> "hostA"]
    /\ osenv = SameUser
    /\ alive = [w \in Workers |-> TRUE]
    /\ shutdown = [w \in Workers |-> FALSE]
    /\ pc = [w \in Workers |-> "idle"]
    /\ task = [w \in Workers |-> NoTask]
    /\ active = [w \in Workers |-> {}]
    /\ pending = [w \in Workers |-> {}]
    /\ rfile = [w \in Workers |-> 0]
    /\ rdata = [w \in Workers |-> EmptyData]
    /\ recovered = [w \in Workers |-> 0]
    /\ created = {}

SessionsNext ==
    \/ GetNextTask(Survivor, TRUE)
    \/ RecLock(Survivor)
    \/ RecLoopEnd(Survivor)
    \/ GntLock(Survivor)
    \/ GntPick(Survivor)

SessionsSpec == SessionsInit /\ [][SessionsNext]_vars

\* A recovery pass over up to two in_progress entries, each of them
\* undecodable, abandoned by an ended session, or held by the other worker,
\* which is running and has held it since time 0.
RecFiles == {1, 2}
HeldData(w) ==
    [EmptyData EXCEPT !.created_at = 0, !.retries = 0,
                      !.session_id = Session(w), !.process_id = Pid(w),
                      !.host = "hostA", !.started_at = 0]

GarbageInit ==
    /\ now \in 0..MaxTime
    /\ todo = EmptyDir /\ reserved = EmptyDir
    /\ inprog \in UNION {[S -> {Garbage} \cup {HeldData(w) : w \in Workers \ {Survivor}}
                                 \cup {AbandonedData(r, st) : r \in {Absent, 0},
                                                              st \in {Absent, 0}}] :
                           S \in SUBSET RecFiles}
    /\ completing = EmptyDir /\ recovering = EmptyDir /\ done = EmptyDir
    /\ stray = EmptyListing
    /\ hb = [w \in Workers |-> Beat(now)]
    /\ locks = [n \in LockNames |-> 0]
    /\ hbthread = [w \in Workers |-> Publisher]
    /\ attempt = [w \in Workers |-> 0]
    /\ hostOf = [w \in Workers |-> "hostA"]
    /\ osenv = SameUser
    /\ alive = [w \in Workers |-> TRUE]
    /\ shutdown = [w \in Workers |-> FALSE]
    /\ pc = [w \in Workers |-> "idle"]
    /\ task = [w \in Workers |-> NoTask]
    /\ active = [w \in Workers |-> {}]
    /\ pending = [w \in Workers |-> {}]
    /\ rfile = [w \in Workers |-> 0]
    /\ rdata = [w \in Workers |-> EmptyData]
    /\ recovered = [w \in Workers |-> 0]
    /\ created = DOMAIN inprog

GarbageNext ==
    \/ GetNextTask(Survivor, TRUE)
    \/ RecLock(Survivor)
    \/ RecClassify(Survivor)
    \/ RecRename(Survivor)
    \/ RecPublish(Survivor)
    \/ RecLoopEnd(Survivor)

GarbageSpec == GarbageInit /\ [][GarbageNext]_vars

\* The publisher threads of the sessions, step by step, and stop() called at
\* any point of the loop.  A thread that can take a step takes one: the
\* sleep ends and the interpreter runs the thread.
BeatNext ==
    \/ \E w \in Workers : HbCheck(w)
    \/ \E w \in Workers : HbWrite(w)
    \/ \E w \in Workers : HbWriteFail(w)
    \/ \E w \in Workers : HbWake(w)
    \/ \E w \in Workers : HbStop(w)
    \/ ClockTick

BeatSpec ==
    /\ Init /\ [][BeatNext]_vars
    /\ \A w \in Workers : WF_vars(HbStep(w))

\* Two workers calling get_next_task, whose two lock waits are taken attempt
\* by attempt.  A worker inside a lock may stay there for any time; a worker
\* inside acquire_lock runs.
LockNext ==
    \/ \E w \in Workers : GetNextTask(w, TRUE)
    \/ \E w \in Workers : RecLock(w)
    \/ \E w \in Workers : LockAttemptTimeout(w)
    \/ \E w \in Workers : RecLockGiveUp(w)
    \/ \E w \in Workers : RecLoopEnd(w)
    \/ \E w \in Workers : GntLock(w)
    \/ \E w \in Workers : GntLockGiveUp(w)
    \/ \E w \in Workers : GntPick(w)

LockSpec ==
    /\ Init /\ [][LockNext]_vars
    /\ \A w \in Workers : WF_vars(AcquireStep(w))

\* Writes may raise; every lock is granted in time.
FaultNext == Patient \/ WriteFailures \/ Rollbacks

FaultSpec == Init /\ [][FaultNext]_vars

PatientSpec == Init /\ [][Patient]_vars

\* The steps a running worker takes by itself once its caller loops over
\* get_next_task(check_stale=True), move_to_in_progress and move_to_done.
Progress(w) ==
    \/ GetNextTask(w, TRUE)
    \/ RecLock(w) \/ RecClassify(w) \/ RecRename(w) \/ RecPublish(w) \/ RecLoopEnd(w)
    \/ GntLock(w) \/ GntPick(w)
    \/ MoveBegin(w) \/ MvReserve(w) \/ MvPublish(w)
    \/ DoneBegin(w) \/ DnRename(w) \/ (\E s \in SuccessInputs : DnPublish(w, s))
    \/ CreateWrite(w) \/ RpRead(w)

FairNext ==
    \/ \E w \in Workers, f \in Files : CreateBegin(w, f)
    \/ \E w \in Workers : Progress(w)
    \/ \E w \in Workers \ {Survivor} : GetNextTask(w, FALSE)
    \/ \E w \in Workers : ReportProgress(w)
    \/ \E w \in Workers \ {Survivor} : Close(w)
    \/ \E w \in Workers \ {Survivor} : Signal(w)
    \/ \E w \in Workers \ {Survivor} : Kill(w)
    \/ LongTick

\* every running process is scheduled and time passes; nothing forces a crash
FairSpec ==
    /\ Init /\ [][FairNext]_vars
    /\ \A w \in Workers : WF_vars(Progress(w))
    /\ SF_vars(LongTick)


\* ===================================================================
\* Properties
\* ===================================================================
\* corrupted/ is created by the constructor and never written.
corrupted == EmptyDir

VisibleDirs(f) ==
    {d \in {"todo", "in_progress", "done", "corrupted"} :
        \/ d = "todo" /\ f \in get_yaml_files(todo)
        \/ d = "in_progress" /\ f \in get_yaml_files(inprog)
        \/ d = "done" /\ f \in get_yaml_files(done)
        \/ d = "corrupted" /\ f \in get_yaml_files(corrupted)}

\* every copy of f the filesystem holds, markers included
OnDisk(f) ==
    {d[f] : d \in {x \in {todo, reserved, inprog, completing, recovering, done} :
                      f \in DOMAIN x}}

\* w had move_to_in_progress return f and has not had move_to_done return true
Owns(w, f) == alive[w] /\ task[w].filename = f /\ task[w].path = "in_progress"

MoveToDoneReturnsTrue(w) == pc[w] = "dn_publish" /\ pc'[w] = "idle"

\* C1 (I1): no filename is a visible entry of more than one of todo/,
\* in_progress/, done/, corrupted/.
C1_OneDirectory == \A f \in Files : Cardinality(VisibleDirs(f)) <= 1

\* C2: a task filename is owned by at most one running worker at a time.
C2_SingleOwner == \A f \in Files : Cardinality({w \in Workers : Owns(w, f)}) <= 1

\* C3: two workers that never run a recovery pass contend for one todo
\* task: the worker that move_to_in_progress returned the task to is the
\* only one it was returned to, and the task is visible only in
\* in_progress/, stamped with that worker's session_id.
C3_ContentionOneWinner ==
    \A f \in Files : \A w \in Workers :
        (Owns(w, f) /\ pc[w] = "working")
            => /\ VisibleDirs(f) = {"in_progress"}
               /\ inprog[f].session_id = Session(w)
               /\ \A v \in Workers \ {w} : ~Owns(v, f)

\* C4 (I4): when move_to_done returns true the filename is visible in done/
\* and not visible in in_progress/.
C4_DoneNotInProgress ==
    [][\A w \in Workers :
          MoveToDoneReturnsTrue(w) =>
              /\ FileOf(w) \in get_yaml_files(done')
              /\ FileOf(w) \notin get_yaml_files(inprog')]_vars

\* C5 (I3): no record written for a filename carries fewer retries than a
\* record already persisted for that filename.
OnDiskNext(f) ==
    {d[f] : d \in {x \in {todo', reserved', inprog', completing', recovering', done'} :
                      f \in DOMAIN x}}

C5_RetriesMonotone ==
    [][\A f \in Files :
          \A new \in OnDiskNext(f) \ OnDisk(f) :
              \A old \in OnDisk(f) : new.retries >= old.retries]_vars

\* C6 (I2): every visible entry of in_progress/ carries session_id,
\* process_id, host and started_at.
C6_OwnershipFields ==
    \A f \in get_yaml_files(inprog) :
        /\ inprog[f].session_id # Absent
        /\ inprog[f].process_id # Absent
        /\ inprog[f].host # ""
        /\ inprog[f].started_at # Absent

C6_Witness == \E f \in Files : f \in get_yaml_files(inprog)

\* C7: once a filename is visible in done/ it does not become visible in
\* todo/ or in_progress/ again.
C7_DoneIsTerminal ==
    [][\A f \in Files :
          f \in get_yaml_files(done) =>
              /\ (f \in get_yaml_files(todo') => f \in get_yaml_files(todo))
              /\ (f \in get_yaml_files(inprog') => f \in get_yaml_files(inprog))]_vars

\* C8: with one worker running fairly, every task created in todo/ becomes
\* a visible entry of done/, whatever step other workers are killed at.
\* Stated for the tasks the bounds leave room for: those created before the
\* clock has moved, in behaviours that keep every record below the retries cap.
BelowCap == \A f \in Files : \A r \in OnDisk(f) : Retries(r) < MaxRetries

C8_AtLeastOnce ==
    ([]BelowCap) =>
        \A f \in Files :
            (now = 0 /\ f \in get_yaml_files(todo)) ~> (f \in get_yaml_files(done))

\* C9: an entry whose owner process is dead, whose session no longer
\* heartbeats and whose started_at is older than the window is classified
\* stale by the recovery pass of get_next_task; the entry leaves
\* in_progress/ and is published to todo/ with retries + 1, failure_reason
\* "Stale task recovery" and recovered_by the recovering pid, where the
\* recovering worker can claim it; a finished pass leaves no such entry.
OwnerGone(data) ==
    /\ data.process_id \in Workers
    /\ ~alive[data.process_id]
    /\ data.session_id \notin get_active_sessions
    /\ data.started_at # Absent /\ now - data.started_at > Timeout

C9_CrashRecover ==
    [][\A w \in Workers :
          /\ (pc[w] = "rec_loop" /\ alive'[w] /\ pending'[w] # pending[w]) =>
                LET f == CHOOSE x \in pending[w] : x \notin pending'[w]
                IN  (f \in DOMAIN inprog /\ OwnerGone(inprog[f])) =>
                        /\ pc'[w] = "rec_rename"
                        /\ rfile'[w] = f
                        /\ rdata'[w] = inprog[f]
          /\ (pc[w] = "rec_rename" /\ pc'[w] = "rec_publish") =>
                rfile[w] \notin get_yaml_files(inprog')
          /\ (pc[w] = "rec_publish" /\ pc'[w] = "rec_loop") =>
                LET f == rfile[w]
                IN  /\ f \in get_yaml_files(todo')
                    /\ todo'[f].retries = Retries(rdata[w]) + 1
                    /\ todo'[f].failure_reason = "Stale task recovery"
                    /\ todo'[f].recovered_by = Pid(w)
                    /\ todo'[f].process_id = rdata[w].process_id
                    /\ f \notin DOMAIN recovering'
          /\ (pc[w] = "rec_loop" /\ pc'[w] = "gnt_lock") =>
                \A f \in get_yaml_files(inprog') : ~OwnerGone(inprog'[f])
          /\ (pc[w] = "gnt_pick" /\ pc'[w] \in {"have", "idle"}
                                 /\ get_yaml_files(todo) # {}) =>
                /\ pc'[w] = "have"
                /\ task'[w].filename \in get_yaml_files(todo)
                /\ task'[w].data = todo[task'[w].filename]]_vars

\* the recovering worker holds the republished record of a dead owner
C9_Witness ==
    \E f \in Files : \E w \in Workers :
        /\ f \in get_yaml_files(todo) /\ f \notin get_yaml_files(inprog)
        /\ todo[f].retries = 1
        /\ todo[f].failure_reason = "Stale task recovery"
        /\ todo[f].recovered_by = Pid(w)
        /\ todo[f].process_id \in Workers \ {w}
        /\ ~alive[todo[f].process_id]
        /\ now - todo[f].started_at > Timeout
        /\ pc[w] = "have" /\ task[w].filename = f /\ task[w].data = todo[f]

\* C10: no recovery pass marks for republication an entry that is truly
\* live when it is classified: its owner runs and publishes heartbeats and
\* its started_at is within the window, be the owner local or remote.
TrulyLive(data) ==
    /\ data.process_id \in Workers
    /\ alive[data.process_id] /\ Publishing(data.process_id)
    /\ data.session_id = Session(data.process_id)
    /\ data.session_id \in get_active_sessions
    /\ data.started_at # Absent /\ now - data.started_at <= Timeout

C10_LiveNotRecovered ==
    [][\A w \in Workers :
          (pc[w] = "rec_loop" /\ pc'[w] = "rec_rename") =>
              ~TrulyLive(inprog[rfile'[w]])]_vars

\* C11: whenever get_next_task returns a task, its priority (0 when the
\* record has none) is the greatest priority of the visible entries of todo/.
Priority(data) == IF data.priority = Absent THEN 0 ELSE data.priority

C11_MaxPriority ==
    [][\A w \in Workers :
          (pc[w] = "gnt_pick" /\ pc'[w] = "have") =>
              \A g \in get_yaml_files(todo) :
                  Priority(todo[g]) <= Priority(task'[w].data)]_vars

\* C12: a report_progress call that got its lock, on a task visible in
\* in_progress/, leaves the on-disk record with progress.updated_at set to
\* the time of the call and progress.percentage within 0..100, every other
\* field as it was.
ReportProgressReturns(w) == pc[w] = "rp_read" /\ pc'[w] = "working"

C12_ProgressWritten ==
    [][\A w \in Workers :
          (ReportProgressReturns(w) /\ FileOf(w) \in get_yaml_files(inprog)) =>
              /\ FileOf(w) \in get_yaml_files(inprog')
              /\ inprog'[FileOf(w)].progress_updated_at = now
              /\ inprog'[FileOf(w)].progress_percentage \in 0..100
              /\ [inprog'[FileOf(w)] EXCEPT
                      !.progress_updated_at = inprog[FileOf(w)].progress_updated_at,
                      !.progress_percentage = inprog[FileOf(w)].progress_percentage,
                      !.progress_status = inprog[FileOf(w)].progress_status]
                  = inprog[FileOf(w)]]_vars

\* C13 (happy path): once the single worker's move_to_done has written
\* done/, no entry is visible in todo/ or in_progress/, no marker is left,
\* done/ holds one entry, and its record has created_at <= started_at <=
\* completed_at, success true and duration_seconds >= 0.
C13_HappyPath ==
    \A f \in get_yaml_files(done) :
        /\ get_yaml_files(todo) = {} /\ get_yaml_files(inprog) = {}
        /\ reserved = EmptyDir /\ completing = EmptyDir
        /\ Cardinality(get_yaml_files(done)) = 1
        /\ done[f].created_at # Absent
        /\ done[f].created_at <= done[f].started_at
        /\ done[f].started_at <= done[f].completed_at
        /\ done[f].success = "True"
        /\ done[f].duration_seconds >= 0
        /\ done[f].duration_seconds = done[f].completed_at - done[f].started_at

\* the path has run to its end, with time passing between its calls
C13_Witness ==
    \E f \in get_yaml_files(done) :
        /\ pc[Survivor] = "idle" /\ task[Survivor] = NoTask
        /\ done[f].created_at < done[f].started_at
        /\ done[f].started_at < done[f].completed_at

\* C14: once a session's shutdown flag is set, the flag stays set and the
\* session is never inside get_next_task, move_to_in_progress, move_to_done
\* or report_progress: a get_next_task leaves it without a task, a
\* move_to_in_progress hands the task back as none without touching a file, a
\* move_to_done or report_progress leaves it holding its task.
InSchedulerCall ==
    {"rec_lock", "rec_loop", "rec_rename", "rec_publish", "gnt_lock", "gnt_pick",
     "mv_reserve", "mv_publish", "mv_rollback", "dn_rename", "dn_publish",
     "dn_rollback", "rp_read"}

C14_ShutdownFastFail ==
    [][\A w \in Workers :
          (alive[w] /\ shutdown[w]) =>
              /\ shutdown'[w]
              /\ pc[w] \notin InSchedulerCall /\ pc'[w] \notin InSchedulerCall
              /\ pc[w] = "idle" => pc'[w] \in {"idle", "cr_write", "dead"}
              /\ (pc[w] = "have" /\ pc'[w] # "have") =>
                     /\ pc'[w] \in {"idle", "dead"}
                     /\ fsVars' = fsVars
              /\ pc[w] = "working" => pc'[w] \in {"working", "dead"}]_vars

\* a closed session gave back the task it had been handed; the task is
\* still queued
C14_Witness ==
    \E w \in Workers : \E f \in get_yaml_files(todo) :
        /\ alive[w] /\ shutdown[w]
        /\ pc[w] = "idle" /\ task[w] = NoTask
        /\ \A v \in Workers \ {w} : pc[v] = "idle" /\ alive[v] /\ ~shutdown[v]
        /\ f \notin get_yaml_files(inprog) /\ todo[f].retries = 0

\* C15: the recovery pass marks a decoded entry stale if and only if
\* (1) its session_id is present and not in the active set, or (2) its
\* process_id is present, its host is the local host (or not recorded) and
\* the process is not running, or (3) its started_at is older than the
\* window, or (4) its started_at is absent or malformed; an entry it does
\* not mark stays in in_progress/ as it was.
StaleAsSpecified(data, act, w) ==
    \/ data.session_id # Absent /\ data.session_id \notin act
    \/ /\ data.process_id # Absent
       /\ data.host \in {"", hostOf[w]}
       /\ ~is_process_running(data.process_id, data.host, w)
    \/ /\ data.started_at \notin {Absent, Malformed}
       /\ now - data.started_at > Timeout
    \/ data.started_at \in {Absent, Malformed}

C15_StaleIff ==
    [][\A w \in Workers :
          (pc[w] = "rec_loop" /\ alive'[w] /\ pending'[w] # pending[w]) =>
              LET f == CHOOSE x \in pending[w] : x \notin pending'[w]
              IN  f \in get_yaml_files(inprog) =>
                      /\ (pc'[w] = "rec_rename")
                             <=> StaleAsSpecified(inprog[f], active[w], w)
                      /\ inprog' = inprog]_vars

\* C16: when the write of the destination record raises after the source
\* was renamed to its marker, move_to_in_progress returns none with the task
\* visible in todo/ and not in in_progress/, and move_to_done returns false
\* with the task visible in in_progress/ and not in done/.
C16_RollbackOnWriteFailure ==
    [][\A w \in Workers :
          /\ (pc[w] = "mv_rollback" /\ pc'[w] = "idle") =>
                 /\ FileOf(w) \in get_yaml_files(todo')
                 /\ FileOf(w) \notin get_yaml_files(inprog')
          /\ (pc[w] = "dn_rollback" /\ pc'[w] = "working") =>
                 /\ FileOf(w) \in get_yaml_files(inprog')
                 /\ FileOf(w) \notin get_yaml_files(done')]_vars

\* The source of a transition's first rename is gone (or, for the todo file,
\* still there after the step): safe_rename did not move it.
RenameFailed(w) ==
    \/ pc[w] = "mv_reserve" /\ FileOf(w) \in get_yaml_files(todo) /\ todo' = todo
    \/ pc[w] = "dn_rename" /\ FileOf(w) \notin get_yaml_files(inprog)
    \/ pc[w] = "rec_rename" /\ rfile[w] \notin get_yaml_files(inprog)

\* C17: when the rename of the source file to its transient marker fails, the
\* operation reports failure and publishes nothing: move_to_in_progress returns
\* none, move_to_done returns false, the recovery pass goes on to its next
\* entry, and no task directory changes.
C17_RenameFailureFails ==
    [][\A w \in Workers :
          (alive'[w] /\ pc'[w] # pc[w] /\ RenameFailed(w)) =>
              /\ pc[w] = "mv_reserve" => pc'[w] = "idle"
              /\ pc[w] = "dn_rename" => pc'[w] = "working"
              /\ pc[w] = "rec_rename" => pc'[w] = "rec_loop"
              /\ fsVars' = fsVars]_vars

\* C18: cleanup_temp_files removes exactly the entries that are older than the
\* age limit and whose name ends in .reserved, .completing, .recovering or
\* .tmp (the <path>.tmp of an interrupted write included); every other entry,
\* visible task files and younger transient files among them, stays as it was.
C18_CleanupExact ==
    [][\A w \in Workers :
          (At(w, "idle") /\ ~shutdown[w] /\ pc'[w] \in {"gnt_lock", "rec_lock"}) =>
              \A n \in DOMAIN stray :
                  IF endswith(n, TransientSuffixes) /\ now - stray[n] > OrphanAge
                  THEN n \notin DOMAIN stray'
                  ELSE n \in DOMAIN stray' /\ stray'[n] = stray[n]]_vars

InRecoveryPass(w) == alive[w] /\ pc[w] \in {"rec_loop", "rec_rename", "rec_publish"}
PassReturned(w) == pc[w] = "gnt_lock"

\* C19: when two recovery passes race, the stale_check lock serializes them
\* and each stale in_progress entry is recovered by at most one of them: the
\* publish raises its retries by exactly 1 and happens once, and once both
\* passes have returned their recovered counts sum to the number of entries
\* that were stale, all of which are then in todo/.
C19_RacingPasses ==
    /\ [](\A w, v \in Workers : (InRecoveryPass(w) /\ InRecoveryPass(v)) => w = v)
    /\ [][\A w \in Workers :
             (pc[w] = "rec_publish" /\ todo' # todo) =>
                 /\ rfile[w] \notin get_yaml_files(todo)
                 /\ rfile[w] \in DOMAIN recovering
                 /\ todo'[rfile[w]].retries = Retries(recovering[rfile[w]]) + 1
                 /\ recovered'[w] = recovered[w] + 1]_vars
    /\ []((\A w \in Workers : PassReturned(w)) =>
             /\ get_yaml_files(inprog) = {} /\ recovering = EmptyDir
             /\ get_yaml_files(todo) = created
             /\ \A f \in get_yaml_files(todo) : todo[f].retries = 1
             /\ recovered[1] + recovered[2] = Cardinality(created))

C19_Witness ==
    /\ \A w \in Workers : PassReturned(w)
    /\ \E f \in Files : f \in get_yaml_files(todo) /\ todo[f].recovered_by # Absent
    /\ \E w \in Workers : recovered[w] = 1

HeldBy(w) == {n \in LockNames : locks[n] = w}
BetweenCalls == {"idle", "have", "working", "dead"}

\* C20: no worker holds two named locks at once, and a worker that is not
\* inside a handler holds none: every handler has released the lock it took
\* before it takes another one and before it returns.
C20_OneLockAtATime ==
    \A w \in Workers :
        /\ Cardinality(HeldBy(w)) <= 1
        /\ pc[w] \in BetweenCalls => HeldBy(w) = {}

\* get_next_task holds todo_lock after its recovery pass has recovered an entry
\* under stale_check, while the other worker holds a lock of its own
C20_Witness ==
    \E w \in Workers :
        /\ pc[w] = "gnt_pick" /\ HeldBy(w) = {"todo_lock"}
        /\ \E f \in get_yaml_files(todo) : todo[f].recovered_by = Pid(w)
        /\ \E v \in Workers \ {w} : HeldBy(v) # {}

\* The call is on the path of a lock wait that ran out: where no write raises,
\* the except branch of a move handler is entered in no other way.
LockWaitRanOut(w) ==
    \/ pc[w] = "have" /\ pc'[w] = "mv_rollback"
    \/ pc[w] = "working" /\ pc'[w] = "dn_rollback"
    \/ pc[w] = "mv_rollback" /\ pc'[w] = "idle"
    \/ pc[w] = "dn_rollback" /\ pc'[w] = "working"

\* C26: a move_to_in_progress or move_to_done call that fails to acquire its
\* lock returns none/false without creating, renaming or removing any file;
\* in particular it leaves alone the .reserved or .completing marker of the
\* worker that holds the lock.
C26_LockFailureTouchesNothing ==
    [][\A w \in Workers : LockWaitRanOut(w) => fsVars' = fsVars]_vars

ProbeAsSpecified(pid, host, w) ==
    IF host # "" /\ host # hostOf[w] THEN FALSE
    ELSE IF pid = Malformed \/ pid <= 0 THEN FALSE
    ELSE IF proc_exists(pid, w) THEN TRUE
    ELSE kill_zero(pid, w) \in {"ok", "PermissionError"}

\* C25: is_process_running(pid, host) is false when host is set and is not the
\* local host, false for an invalid or non-positive pid, true when the local
\* existence check finds the pid and true when the zero-signal check is
\* refused with permission-denied; an entry the probe alone decides is taken
\* for stale exactly when that answer is false.
C25_ProbeAnswers ==
    [][\A w \in Workers :
          (pc[w] = "rec_loop" /\ alive'[w] /\ pending'[w] # pending[w]) =>
              LET f == CHOOSE x \in pending[w] : x \notin pending'[w]
              IN (/\ f \in get_yaml_files(inprog)
                  /\ inprog[f].session_id = Absent
                  /\ inprog[f].process_id # Absent
                  /\ inprog[f].started_at = now) =>
                     ((pc'[w] = "rec_rename") <=>
                        ~ProbeAsSpecified(inprog[f].process_id, inprog[f].host, w))]_vars

InWindow(t) == t \in 0..now /\ now - t <= Timeout

\* C23: the active session set that recovery computes holds a session if and
\* only if its heartbeat file exists with an mtime inside the staleness window
\* and decodes to a last_beat inside the window; a file that does not decode,
\* or has no last_beat or an unparseable one, contributes no session.
C23_ActiveSessions ==
    [][\A w \in Workers :
          (pc[w] = "idle" /\ pc'[w] = "rec_lock") =>
              \A v \in Workers :
                  Session(v) \in active'[w] <=>
                      /\ hb[v] # NoBeat
                      /\ InWindow(hb[v].mtime)
                      /\ hb[v].decodes
                      /\ InWindow(hb[v].last_beat)]_vars

\* the pass has its set: one session is in it, another is left out although
\* its file is fresh, because its last_beat is old
C23_Witness ==
    \E w, u, v \in Workers :
        /\ pc[w] = "rec_lock"
        /\ Session(u) \in active[w]
        /\ Session(v) \notin active[w]
        /\ InWindow(hb[v].mtime) /\ hb[v].decodes
        /\ hb[v].last_beat \in 0..now /\ ~InWindow(hb[v].last_beat)

\* C24: a recovery pass over an in_progress/ that holds an undecodable entry
\* does not stop at it and leaves it as it is, and every other entry is
\* handled as if the bad one were not there: once the pass has returned,
\* each entry is the undecodable one still in place, one that is not stale
\* still in place, or a stale one republished once in todo/, and the count
\* is the number of stale entries.
C24_BadEntrySkipped ==
    /\ [][\A w \in Workers :
             (pc[w] = "rec_loop" /\ pending'[w] # pending[w]) =>
                 LET f == CHOOSE x \in pending[w] : x \notin pending'[w]
                 IN (f \in get_yaml_files(inprog) /\ ~Decodes(inprog[f])) =>
                        /\ pc'[w] = "rec_loop"
                        /\ pending'[w] = pending[w] \ {f}
                        /\ fsVars' = fsVars
                        /\ recovered' = recovered]_vars
    /\ [](PassReturned(Survivor) =>
             /\ \A f \in created :
                   \/ /\ f \in get_yaml_files(inprog) /\ f \notin get_yaml_files(todo)
                      /\ inprog[f] = Garbage
                   \/ /\ f \in get_yaml_files(inprog) /\ f \notin get_yaml_files(todo)
                      /\ Decodes(inprog[f])
                      /\ ~IsStale(inprog[f], get_active_sessions, Survivor)
                   \/ /\ f \in get_yaml_files(todo) /\ f \notin get_yaml_files(inprog)
                      /\ IsStale(todo[f], get_active_sessions, Survivor)
                      /\ todo[f].retries = 1
                      /\ todo[f].recovered_by = Pid(Survivor)
             /\ recovering = EmptyDir
             /\ recovered[Survivor] = Cardinality(get_yaml_files(todo)))

\* the pass has returned: the undecodable entry is where it was and the
\* abandoned entry next to it has been recovered
C24_Witness ==
    /\ PassReturned(Survivor)
    /\ \E f, g \in RecFiles :
          /\ f \in get_yaml_files(inprog) /\ inprog[f] = Garbage
          /\ g \in get_yaml_files(todo) /\ todo[g].recovered_by = Pid(Survivor)

\* C22: once Heartbeat.stop() has set the flag the publisher makes at most
\* one more publish, the one in flight, and its loop ends; stop() itself
\* leaves the heartbeat file where it is.
C22_StopEndsPublishing ==
    /\ [][\A w \in Workers :
             (~hbthread[w].stop /\ hbthread'[w].stop) => hb' = hb]_vars
    /\ [](\A w \in Workers : hbthread[w].late <= 1)
    /\ \A w \in Workers : [](hbthread[w].stop => <>(hbthread[w].at = "ended"))

\* stop() came between the loop's test and its write: the publish in flight
\* was made, the loop has ended, the file is there
C22_Witness ==
    \E w \in Workers :
        /\ hbthread[w].stop /\ hbthread[w].late = 1
        /\ hbthread[w].at = "ended"
        /\ hb[w] # NoBeat

\* C21: acquire_lock always terminates: it makes at most max_retries attempts
\* and raises the lock-acquisition error when the last one times out, so no
\* operation stays in a lock wait for ever, whatever the holder does.
C21_LockWaitEnds ==
    /\ [](\A w \in Workers : attempt[w] < LockMaxRetries)
    /\ \A w \in Workers : (pc[w] = "rec_lock") ~> (pc[w] # "rec_lock")
    /\ \A w \in Workers : (pc[w] = "gnt_lock") ~> (pc[w] # "gnt_lock")

\* a worker is in its last attempt for a lock the other worker still holds
C21_Witness ==
    \E w \in Workers :
        /\ pc[w] \in {"rec_lock", "gnt_lock"}
        /\ LastAttempt(w)
        /\ locks[WaitedLock(w)] \in Workers \ {w}

====
